---------------------------- MODULE Spec2Model ----------------------------
(* Model of the sports-betting backend: the betting engine                  *)
(* (src/src/services/betting_service.py), the user-profile endpoints        *)
(* (src/src/user/profile.py) and the public router (src/src/api/router.py). *)
(*                                                                          *)
(* Numbers.  Python floats are modelled as exact rationals <<n, d>> with    *)
(* d > 0 in lowest terms, so amount * odds and total / stake * 0.95 are     *)
(* computed as written; binary rounding of floats is not modelled.          *)
(* Time.  datetime.utcnow() is the variable now, in seconds; it only moves  *)
(* forward.                                                                 *)
(* Each handler runs to completion as one step (one request at a time).     *)
EXTENDS Integers, Sequences, FiniteSets, TLC

\* ------------------------------------------------------------------ bounds
MaxUsers == 2
MaxEvents == 2
MaxBets == 2
MaxResolves == 2
MaxDeposits == 1
MaxTime == 45
MaxTasks == 3

\* ------------------------------------------------------- program constants
LOCK_SECONDS == 30
START_BALANCE == 100

\* ---------------------------------------------------------- input domains
TickSteps == {15, 30}
Usernames == {"alice", "bob"}
Passwords == {"pw", "pw2"}
UserIds == 1..MaxUsers
EventIds == 0..MaxEvents
BetAmounts == {-200, 60}
DepositAmounts == {0, 50}
WithdrawAmounts == {0, 20}
Outcomes == {"team_a_won", "draw", "player1"}
Results == {"team_a_won", "draw"}
Roles == {"user", "guest"}

None == "None"
NoTime == -1

VARIABLES
    users,                  \* the users table, indexed by id
    events,                 \* the events table, indexed by id
    bets,                   \* the bets table, indexed by id
    locked_users,           \* BettingService.locked_users: user id -> unlock time
    total_service_deposit,  \* BettingService.total_service_deposit
    now,                    \* datetime.utcnow(), in seconds
    resolves,               \* resolve_event calls made so far
    deposits,               \* deposits accepted so far
    withdrawn_at,           \* history: user id -> time withdraw_money last succeeded
    last,                   \* the last call and its answer
    tasks                   \* the requests handled step by step, in arrival order

vars == <<users, events, bets, locked_users, total_service_deposit, now,
          resolves, deposits, withdrawn_at, last, tasks>>

\* ---------------------------------------------------------------- rationals
Abs(n) == IF n < 0 THEN -n ELSE n

RECURSIVE GCD(_, _)
GCD(a, b) == IF b = 0 THEN a ELSE GCD(b, a % b)

Norm(n, d) ==
    LET g == GCD(Abs(n), d) IN
    IF n = 0 THEN <<0, 1>> ELSE <<n \div g, d \div g>>

R(n) == <<n, 1>>
RAdd(x, y) == Norm(x[1] * y[2] + y[1] * x[2], x[2] * y[2])
RSub(x, y) == Norm(x[1] * y[2] - y[1] * x[2], x[2] * y[2])
RMul(x, y) == Norm(x[1] * y[1], x[2] * y[2])
RLess(x, y) == x[1] * y[2] < y[1] * x[2]
RMax(x, y) == IF RLess(x, y) THEN y ELSE x

\* ------------------------------------------------------------------ models
sports_types == {"football", "basketball", "tennis", "hockey", "volleyball"}

\* the sports the model lets random.choice(sports_types) return
SportDraws == {"football", "tennis"}

\* helpers.get_sport_outcomes
get_sport_outcomes(sport_type) ==
    CASE sport_type = "football" -> {"team_a_won", "team_b_won", "draw"}
      [] sport_type = "basketball" -> {"team_a_won", "team_b_won"}
      [] sport_type = "tennis" -> {"player1", "player2"}
      [] sport_type = "hockey" -> {"team_a_won", "team_b_won", "overtime"}
      [] sport_type = "volleyball" -> {"team_a_won", "team_b_won"}
      [] OTHER -> {"team_a_won", "team_b_won", "draw"}

NewEvent(sport) ==
    [sport_type |-> sport, is_active |-> TRUE, is_finished |-> FALSE,
     result |-> None]

NewBet(u, e, amount, odds, outcome) ==
    [user_id |-> u, event_id |-> e, amount |-> amount, odds |-> odds,
     predicted_outcome |-> outcome, is_won |-> None, payout |-> R(0),
     resolved_at |-> NoTime]

get_password_hash(password) == <<"bcrypt", password>>
verify_password(plain, hashed) == hashed = get_password_hash(plain)

\* The User table itself (src/models/user.py) is not among the sources; a new
\* row's total_deposited is taken to start at 0.
create_user(username, password) ==
    [username |-> username, hashed_password |-> get_password_hash(password),
     role |-> "user", balance |-> R(START_BALANCE), total_deposited |-> R(0)]

\* The last call: the handler, the user id it was called for (0 when it takes
\* none), its outcome ("ok" or the rejection) and the identifier of the row it
\* returned (0 when none).
Resp(op, user, result, ret) ==
    [op |-> op, user |-> user, result |-> result, ret |-> ret]

Init ==
    /\ users = <<>>
    /\ events = <<>>
    /\ bets = <<>>
    /\ locked_users = <<>>
    /\ total_service_deposit = R(0)
    /\ now = 0
    /\ resolves = 0
    /\ deposits = 0
    /\ withdrawn_at = [u \in UserIds |-> NoTime]
    /\ last = Resp("init", 0, "ok", 0)
    /\ tasks = <<>>

\* ------------------------------------------------------------------- clock
Tick ==
    /\ \E d \in TickSteps :
          /\ now + d <= MaxTime
          /\ now' = now + d
    /\ last' = Resp("tick", 0, "ok", 0)
    /\ UNCHANGED <<users, events, bets, locked_users, total_service_deposit,
                   resolves, deposits, withdrawn_at, tasks>>

\* ------------------------------------------------------------ betting engine
EventBets(event_id) ==
    {i \in 1..Len(bets) : bets[i].event_id = event_id}

RECURSIVE SumAmount(_)
SumAmount(S) ==
    IF S = {} THEN 0
    ELSE LET i == CHOOSE j \in S : TRUE
         IN bets[i].amount + SumAmount(S \ {i})

\* outcome_stats[outcome]["amount"]
OutcomeAmount(event_id, outcome) ==
    SumAmount({i \in EventBets(event_id) : bets[i].predicted_outcome = outcome})

StandardOdds ==
    [o \in {"team_a_won", "team_b_won", "draw"} |->
        IF o = "draw" THEN R(3) ELSE R(2)]

\* the odds of a staked outcome without the bookie margin
OutcomeOdd_NoMargin(total_amount, bet_amount) ==
    IF bet_amount > 0
    THEN RMax(Norm(total_amount, bet_amount), <<11, 10>>)
    ELSE R(2)

\* the odds of a staked outcome without the 1.1 floor
OutcomeOdd_NoFloor(total_amount, bet_amount) ==
    IF bet_amount > 0
    THEN RMul(Norm(total_amount, bet_amount), <<19, 20>>)
    ELSE R(2)

OutcomeOdd(total_amount, bet_amount) ==
    IF bet_amount > 0
    THEN RMax(RMul(Norm(total_amount, bet_amount), <<19, 20>>), <<11, 10>>)
    ELSE R(2)

\* the odds map without the three standard keys filled in at the end
calculate_odds_NoBackfill(event_id) ==
    IF EventBets(event_id) = {}
    THEN StandardOdds
    ELSE LET staked == {bets[i].predicted_outcome : i \in EventBets(event_id)}
             total_amount == SumAmount(EventBets(event_id))
         IN [o \in staked |->
                OutcomeOdd(total_amount, OutcomeAmount(event_id, o))]

calculate_odds_based_on_bets(event_id) ==
    IF EventBets(event_id) = {}
    THEN StandardOdds
    ELSE LET staked == {bets[i].predicted_outcome : i \in EventBets(event_id)}
             total_amount == SumAmount(EventBets(event_id))
         IN [o \in staked \cup DOMAIN StandardOdds |->
                IF o \in staked
                THEN OutcomeOdd(total_amount, OutcomeAmount(event_id, o))
                ELSE StandardOdds[o]]

\* utcnow() < unlock_time for an entry of the lock map
\* the lock test with the boundary instant still counted as locked
LockActive_Inclusive(u) == u \in DOMAIN locked_users /\ now <= locked_users[u]

LockActive(u) == u \in DOMAIN locked_users /\ now < locked_users[u]

Unlock(u) == [x \in DOMAIN locked_users \ {u} |-> locked_users[x]]

SetLock(l, u, t) == [x \in DOMAIN l \cup {u} |-> IF x = u THEN t ELSE l[x]]

UserExists(u) == u \in 1..Len(users)
EventExists(e) == e \in 1..Len(events)

\* place_bet looking at the event before it looks at the user
PlaceBetResult_EventFirst(u, e, amount, outcome) ==
    IF LockActive(u) THEN "locked"
    ELSE IF ~EventExists(e) \/ ~events[e].is_active \/ events[e].is_finished
         THEN "event_not_active"
    ELSE IF ~UserExists(u) THEN "user_not_found"
    ELSE IF RLess(users[u].balance, R(amount)) THEN "insufficient_balance"
    ELSE IF outcome \notin DOMAIN calculate_odds_based_on_bets(e)
         THEN "invalid_outcome"
    ELSE "ok"

\* The first failing check of place_bet, or "ok".
PlaceBetResult(u, e, amount, outcome) ==
    IF LockActive(u) THEN "locked"
    ELSE IF ~UserExists(u) THEN "user_not_found"
    ELSE IF RLess(users[u].balance, R(amount)) THEN "insufficient_balance"
    ELSE IF ~EventExists(e) \/ ~events[e].is_active \/ events[e].is_finished
         THEN "event_not_active"
    ELSE IF outcome \notin DOMAIN calculate_odds_based_on_bets(e)
         THEN "invalid_outcome"
    ELSE "ok"

\* The state change of place_bet(session, u, e, amount, outcome).
\* place_bet without the total_deposited line
PlaceBetEffect_NoDeposited(u, e, amount, outcome) ==
    LET res == PlaceBetResult(u, e, amount, outcome) IN
    /\ locked_users' = IF res = "locked" THEN locked_users ELSE Unlock(u)
    /\ IF res = "ok"
       THEN /\ bets' = Append(bets,
                  NewBet(u, e, amount,
                         calculate_odds_based_on_bets(e)[outcome], outcome))
            /\ users' = [users EXCEPT ![u].balance = RSub(@, R(amount))]
            /\ total_service_deposit' = RAdd(total_service_deposit, R(amount))
       ELSE UNCHANGED <<bets, users, total_service_deposit>>
    /\ UNCHANGED <<events, now, resolves, deposits, withdrawn_at, tasks>>

\* place_bet debiting the balance before it looks at the event
PlaceBetEffect_DebitFirst(u, e, amount, outcome) ==
    LET res == PlaceBetResult(u, e, amount, outcome) IN
    /\ locked_users' = IF res = "locked" THEN locked_users ELSE Unlock(u)
    /\ IF res = "ok"
       THEN /\ bets' = Append(bets,
                  NewBet(u, e, amount,
                         calculate_odds_based_on_bets(e)[outcome], outcome))
            /\ users' = [users EXCEPT
                  ![u].balance = RSub(@, R(amount)),
                  ![u].total_deposited = RAdd(@, R(amount))]
            /\ total_service_deposit' = RAdd(total_service_deposit, R(amount))
       ELSE /\ users' = IF res \in {"event_not_active", "invalid_outcome"}
                        THEN [users EXCEPT ![u].balance = RSub(@, R(amount))]
                        ELSE users
            /\ UNCHANGED <<bets, total_service_deposit>>
    /\ UNCHANGED <<events, now, resolves, deposits, withdrawn_at, tasks>>

PlaceBetEffect(u, e, amount, outcome) ==
    LET res == PlaceBetResult(u, e, amount, outcome) IN
    /\ locked_users' = IF res = "locked" THEN locked_users ELSE Unlock(u)
    /\ IF res = "ok"
       THEN /\ bets' = Append(bets,
                  NewBet(u, e, amount,
                         calculate_odds_based_on_bets(e)[outcome], outcome))
            /\ users' = [users EXCEPT
                  ![u].balance = RSub(@, R(amount)),
                  ![u].total_deposited = RAdd(@, R(amount))]
            /\ total_service_deposit' = RAdd(total_service_deposit, R(amount))
       ELSE UNCHANGED <<bets, users, total_service_deposit>>
    /\ UNCHANGED <<events, now, resolves, deposits, withdrawn_at, tasks>>

place_bet_in(U, E, A, O) ==
    \E u \in U, e \in E, amount \in A, outcome \in O :
        /\ PlaceBetResult(u, e, amount, outcome) = "ok" => Len(bets) < MaxBets
        /\ PlaceBetEffect(u, e, amount, outcome)
        /\ last' = Resp("place_bet", u, PlaceBetResult(u, e, amount, outcome),
                        IF PlaceBetResult(u, e, amount, outcome) = "ok"
                        THEN Len(bets) + 1 ELSE 0)

place_bet == place_bet_in(UserIds, EventIds, BetAmounts, Outcomes)

\* bet.amount * bet.odds summed over the winning bets of user u on event e
RECURSIVE SumPayout(_)
SumPayout(S) ==
    IF S = {} THEN R(0)
    ELSE LET i == CHOOSE j \in S : TRUE
         IN RAdd(RMul(R(bets[i].amount), bets[i].odds), SumPayout(S \ {i}))

Winners(e, actual_result) ==
    {i \in EventBets(e) : bets[i].predicted_outcome = actual_result}

\* resolve_event paying a winner the stake alone, without the odds
ResolveBet_StakeOnly(b, actual_result) ==
    IF b.predicted_outcome = actual_result
    THEN [b EXCEPT !.is_won = "True", !.payout = R(b.amount),
                   !.resolved_at = now]
    ELSE [b EXCEPT !.is_won = "False", !.payout = R(0), !.resolved_at = now]

\* resolve_event settling a bet at the event's odds of the moment
ResolveBet_CurrentOdds(b, actual_result) ==
    LET current ==
            calculate_odds_based_on_bets(b.event_id)[b.predicted_outcome]
    IN IF b.predicted_outcome = actual_result
       THEN [b EXCEPT !.is_won = "True", !.odds = current,
                      !.payout = RMul(R(b.amount), current),
                      !.resolved_at = now]
       ELSE [b EXCEPT !.is_won = "False", !.payout = R(0),
                      !.resolved_at = now]

ResolveBet(b, actual_result) ==
    IF b.predicted_outcome = actual_result
    THEN [b EXCEPT !.is_won = "True", !.payout = RMul(R(b.amount), b.odds),
                   !.resolved_at = now]
    ELSE [b EXCEPT !.is_won = "False", !.payout = R(0), !.resolved_at = now]

ResolveEffect(e, actual_result) ==
    /\ events' = [events EXCEPT ![e].is_active = FALSE,
                                ![e].is_finished = TRUE,
                                ![e].result = actual_result]
    /\ bets' = [i \in 1..Len(bets) |->
                  IF bets[i].event_id = e
                  THEN ResolveBet(bets[i], actual_result) ELSE bets[i]]
    /\ users' = [u \in 1..Len(users) |->
                  [users[u] EXCEPT !.balance =
                      RAdd(@, SumPayout({i \in Winners(e, actual_result) :
                                            bets[i].user_id = u}))]]
    /\ total_service_deposit' =
          RSub(total_service_deposit, SumPayout(Winners(e, actual_result)))

resolve_event_in(E, Rs) ==
    \E e \in E, actual_result \in Rs :
        /\ resolves < MaxResolves
        /\ resolves' = resolves + 1
        /\ IF EventExists(e)
           THEN /\ ResolveEffect(e, actual_result)
                /\ last' = Resp("resolve_event", 0, "ok", 0)
           ELSE /\ UNCHANGED <<events, bets, users, total_service_deposit>>
                /\ last' = Resp("resolve_event", 0, "event_not_found", 0)
        /\ UNCHANGED <<locked_users, now, deposits, withdrawn_at, tasks>>

resolve_event == resolve_event_in(EventIds, Results)

create_random_events ==
    \E count \in 1..(MaxEvents - Len(events)) :
      \E sport \in [1..count -> SportDraws] :
        /\ events' = events \o [i \in 1..count |-> NewEvent(sport[i])]
        /\ last' = Resp("create_random_events", 0, "ok", 0)
        /\ UNCHANGED <<users, bets, locked_users, total_service_deposit, now,
                       resolves, deposits, withdrawn_at, tasks>>

\* withdraw_money(user_id, amount): "locked" or the new lock map
WithdrawResult(u) == IF LockActive(u) THEN "locked" ELSE "ok"

WithdrawLocks(u) ==
    IF LockActive(u) THEN locked_users
    ELSE SetLock(Unlock(u), u, now + LOCK_SECONDS)

\* the history of successful withdraw_money calls after one more call
Withdrawn(u, result) ==
    IF result = "ok" THEN [withdrawn_at EXCEPT ![u] = now] ELSE withdrawn_at

\* withdraw_money taking the amount from the balance as well
withdraw_money_Debit ==
    \E u \in UserIds, amount \in WithdrawAmounts :
        /\ locked_users' = WithdrawLocks(u)
        /\ withdrawn_at' = Withdrawn(u, WithdrawResult(u))
        /\ last' = Resp("withdraw_money", u, WithdrawResult(u), 0)
        /\ users' = IF UserExists(u) /\ WithdrawResult(u) = "ok"
                    THEN [users EXCEPT ![u].balance = RSub(@, R(amount))]
                    ELSE users
        /\ UNCHANGED <<events, bets, total_service_deposit, now,
                       resolves, deposits, tasks>>

withdraw_money ==
    \E u \in UserIds, amount \in WithdrawAmounts :
        /\ locked_users' = WithdrawLocks(u)
        /\ withdrawn_at' = Withdrawn(u, WithdrawResult(u))
        /\ last' = Resp("withdraw_money", u, WithdrawResult(u), 0)
        /\ UNCHANGED <<users, events, bets, total_service_deposit, now,
                       resolves, deposits, tasks>>

\* get_user_lock_status(user_id): the returned flag
LockStatus(u) ==
    IF u \in DOMAIN locked_users
    THEN IF now >= locked_users[u] THEN FALSE ELSE TRUE
    ELSE FALSE

\* ... and the lock map it leaves
\* get_user_lock_status dropping the entry whether or not it has expired
LockStatusLocks_Always(u) == Unlock(u)

LockStatusLocks(u) ==
    IF u \in DOMAIN locked_users /\ now >= locked_users[u]
    THEN Unlock(u) ELSE locked_users

get_user_lock_status ==
    \E u \in UserIds :
        /\ locked_users' = LockStatusLocks(u)
        /\ last' = Resp("get_user_lock_status", u,
                        IF LockStatus(u) THEN "True" ELSE "False", 0)
        /\ UNCHANGED <<users, events, bets, total_service_deposit, now,
                       resolves, deposits, withdrawn_at, tasks>>

\* ------------------------------------------------- user profile endpoints
\* POST /user/withdraw of the user-profile module
WithdrawFundsResult(u, amount) ==
    IF amount <= 0 THEN "400"
    ELSE IF LockStatus(u) THEN "423"
    ELSE "ok"

\* The answer of POST /user/withdraw of the user-profile module, with the
\* request's amount.
WithdrawFundsResp(u, amount, result) ==
    [op |-> "withdraw_funds", user |-> u, result |-> result, ret |-> 0,
     amount |-> amount]

\* the HTTP status of that answer
WithdrawFundsStatus(result) == IF result = "ok" THEN "200" ELSE result

withdraw_funds ==
    \E u \in UserIds, amount \in WithdrawAmounts :
        /\ locked_users' =
              IF amount <= 0 THEN locked_users
              ELSE IF LockStatus(u) THEN LockStatusLocks(u)
              ELSE SetLock(LockStatusLocks(u), u, now + LOCK_SECONDS)
        /\ withdrawn_at' = Withdrawn(u, WithdrawFundsResult(u, amount))
        /\ last' = WithdrawFundsResp(u, amount, WithdrawFundsResult(u, amount))
        /\ UNCHANGED <<users, events, bets, total_service_deposit, now,
                       resolves, deposits, tasks>>

\* POST /user/deposit of the user-profile module
\* the checks of deposit_funds letting an amount of 0 through
DepositResult_ZeroAllowed(u, amount) ==
    IF amount < 0 THEN "400"
    ELSE IF ~UserExists(u) THEN "404"
    ELSE "ok"

DepositResult(u, amount) ==
    IF amount <= 0 THEN "400"
    ELSE IF ~UserExists(u) THEN "404"
    ELSE "ok"

\* The answer of POST /user/deposit: the request's user id and amount, the
\* status, and the new_balance of the body (None when the call is refused).
DepositResp(u, amount, result, new_balance) ==
    [op |-> "deposit_funds", user |-> u, result |-> result, ret |-> 0,
     amount |-> amount, new_balance |-> new_balance]

\* deposit_funds crediting the balance but not total_deposited
deposit_funds_BalanceOnly(U, A) ==
    \E u \in U, amount \in A :
        /\ DepositResult(u, amount) = "ok" => deposits < MaxDeposits
        /\ IF DepositResult(u, amount) = "ok"
           THEN /\ users' = [users EXCEPT ![u].balance = RAdd(@, R(amount))]
                /\ deposits' = deposits + 1
                /\ last' = DepositResp(u, amount, "ok", users'[u].balance)
           ELSE /\ UNCHANGED <<users, deposits>>
                /\ last' = DepositResp(u, amount, DepositResult(u, amount),
                                       None)
        /\ UNCHANGED <<events, bets, locked_users, total_service_deposit, now,
                       resolves, withdrawn_at, tasks>>

deposit_funds_in(U, A) ==
    \E u \in U, amount \in A :
        /\ DepositResult(u, amount) = "ok" => deposits < MaxDeposits
        /\ IF DepositResult(u, amount) = "ok"
           THEN /\ users' = [users EXCEPT
                      ![u].balance = RAdd(@, R(amount)),
                      ![u].total_deposited = RAdd(@, R(amount))]
                /\ deposits' = deposits + 1
                /\ last' = DepositResp(u, amount, "ok", users'[u].balance)
           ELSE /\ UNCHANGED <<users, deposits>>
                /\ last' = DepositResp(u, amount, DepositResult(u, amount),
                                       None)
        /\ UNCHANGED <<events, bets, locked_users, total_service_deposit, now,
                       resolves, withdrawn_at, tasks>>

deposit_funds == deposit_funds_in(UserIds, DepositAmounts)

\* ------------------------------------------------------------ public router
RoleAllowed(role) == role \in {"user", "admin"}

\* the user id both handlers use in place of the caller's
\* the two handlers acting on another user's id
OTHER_USER_ID == 1 + 1

ROUTER_USER_ID == 1

\* The HTTP status of POST /user/withdraw of the public router: an exception
\* of the engine is answered as 400.
ApiWithdrawStatus(result) ==
    IF result = "ok" THEN "200"
    ELSE IF result = "locked" THEN "400"
    ELSE result

\* POST /user/withdraw of the public router
api_withdraw_money ==
    \E role \in Roles, amount \in WithdrawAmounts :
        /\ locked_users' =
              IF RoleAllowed(role) THEN WithdrawLocks(ROUTER_USER_ID)
              ELSE locked_users
        /\ last' = Resp("api_withdraw_money", ROUTER_USER_ID,
                        IF ~RoleAllowed(role) THEN "403"
                        ELSE WithdrawResult(ROUTER_USER_ID), 0)
        /\ withdrawn_at' =
              IF RoleAllowed(role)
              THEN Withdrawn(ROUTER_USER_ID, WithdrawResult(ROUTER_USER_ID))
              ELSE withdrawn_at
        /\ UNCHANGED <<users, events, bets, total_service_deposit, now,
                       resolves, deposits, tasks>>

\* POST /bet/place of the public router
api_place_bet_in(E, A, O) ==
    \E role \in Roles :
        IF RoleAllowed(role)
        THEN \E e \in E, amount \in A, outcome \in O :
             /\ PlaceBetResult(ROUTER_USER_ID, e, amount, outcome) = "ok"
                   => Len(bets) < MaxBets
             /\ PlaceBetEffect(ROUTER_USER_ID, e, amount, outcome)
             /\ last' = Resp("api_place_bet", ROUTER_USER_ID,
                    PlaceBetResult(ROUTER_USER_ID, e, amount, outcome),
                    IF PlaceBetResult(ROUTER_USER_ID, e, amount, outcome) = "ok"
                    THEN Len(bets) + 1 ELSE 0)
        ELSE /\ last' = Resp("api_place_bet", ROUTER_USER_ID, "403", 0)
             /\ UNCHANGED <<users, events, bets, locked_users,
                            total_service_deposit, now, resolves, deposits,
                            withdrawn_at, tasks>>

api_place_bet == api_place_bet_in(EventIds, BetAmounts, Outcomes)

\* ------------------------------------------------------------ bearer tokens
\* A bearer token as jwt.decode sees it: whether it parses, whether its
\* signature verifies under SECRET_KEY, and its exp, sub and role claims
\* (None for a claim the payload lacks).
Subjects == {"alice", None}
TokenRoles == {"user", "admin", "guest", None}
TokenExps == {20, 45}

\* a string that is no JWT at all: nothing in it can be read
Garbled ==
    [sub |-> None, role |-> None, exp |-> 0, signed |-> FALSE,
     wellformed |-> FALSE]

\* the tokens of a second principal, of role user
OtherTokens ==
    [sub : {"bob"}, role : {"user"}, exp : TokenExps,
     signed : BOOLEAN, wellformed : {TRUE}]

Tokens ==
    [sub : Subjects, role : TokenRoles, exp : TokenExps,
     signed : BOOLEAN, wellformed : {TRUE}] \cup OtherTokens \cup {Garbled}

\* jwt.decode raises a JWTError: the token does not parse, the signature does
\* not verify, or exp lies before the current time
\* jwt.decode without the check of exp
JWTError_NoExpiry(token) == ~token.wellformed \/ ~token.signed

JWTError(token) == ~token.wellformed \/ ~token.signed \/ token.exp < now

\* AuthService.get_current_user_role: the role claim, or None
get_current_user_role(token) ==
    IF JWTError(token) THEN None
    ELSE IF token.sub = None \/ token.role = None THEN None
    ELSE token.role

\* the role test of the admin endpoints
\* the admin endpoints admitting every role the user endpoints admit
AdminAllowed_AnyUser(role) == role \in {"user", "admin"}

AdminAllowed(role) == role = "admin"

\* The status a route answers before its handler body runs: 401 from the
\* get_current_user dependency, 403 from the role test, else "ok".
Gate(token, admin_only) ==
    IF get_current_user_role(token) = None THEN "401"
    ELSE IF admin_only /\ ~AdminAllowed(get_current_user_role(token)) THEN "403"
    ELSE IF ~admin_only /\ ~RoleAllowed(get_current_user_role(token)) THEN "403"
    ELSE "ok"

\* BettingService.get_admin_analytics
get_admin_analytics ==
    [bookie_margin |-> <<1, 20>>,
     total_service_deposit |-> total_service_deposit,
     locked_users_count |-> Cardinality(DOMAIN locked_users),
     active_events_count |-> 0,
     total_bets_placed |-> 0,
     total_payouts |-> 0]

\* The answer of a route called with a bearer token: the request's route and
\* token next to the fields of Resp, and the body of a 200 answer.
RouteResp(op, user, route, token, result, body) ==
    [op |-> op, user |-> user, result |-> result, ret |-> 0,
     route |-> route, token |-> token, body |-> body]

NoBody == [kind |-> "none"]
SampleBody == [kind |-> "sample"]

\* a route whose handler reads only: the public router's GET endpoints
ReadRoute(op, route, admin_only, body) ==
    \E token \in Tokens :
        /\ last' = RouteResp(op, 0, route, token, Gate(token, admin_only),
                             IF Gate(token, admin_only) = "ok"
                             THEN body ELSE NoBody)
        /\ UNCHANGED <<users, events, bets, locked_users,
                       total_service_deposit, now, resolves, deposits,
                       withdrawn_at, tasks>>

route_user_profile ==
    ReadRoute("get_user_profile", "/user/profile", FALSE, SampleBody)

route_user_balance ==
    ReadRoute("get_user_balance", "/user/balance", FALSE, SampleBody)

route_admin_analytics ==
    ReadRoute("get_admin_analytics", "/admin/analytics", TRUE,
              [kind |-> "analytics", data |-> get_admin_analytics])

route_admin_users ==
    ReadRoute("get_all_users", "/admin/users", TRUE, SampleBody)

route_admin_events ==
    ReadRoute("get_admin_events", "/admin/events", TRUE, SampleBody)

\* POST /user/withdraw of the public router, called with a bearer token
route_user_withdraw ==
    \E token \in Tokens, amount \in WithdrawAmounts :
        /\ locked_users' =
              IF Gate(token, FALSE) = "ok" THEN WithdrawLocks(ROUTER_USER_ID)
              ELSE locked_users
        /\ withdrawn_at' =
              IF Gate(token, FALSE) = "ok"
              THEN Withdrawn(ROUTER_USER_ID, WithdrawResult(ROUTER_USER_ID))
              ELSE withdrawn_at
        /\ last' = RouteResp("api_withdraw_money", ROUTER_USER_ID,
                             "/user/withdraw", token,
                             IF Gate(token, FALSE) = "ok"
                             THEN WithdrawResult(ROUTER_USER_ID)
                             ELSE Gate(token, FALSE),
                             NoBody)
        /\ UNCHANGED <<users, events, bets, total_service_deposit, now,
                       resolves, deposits, tasks>>

\* POST /bet/place of the public router, called with a bearer token
route_bet_place_in(E, A, O) ==
    \E token \in Tokens :
        IF Gate(token, FALSE) = "ok"
        THEN \E e \in E, amount \in A, outcome \in O :
             /\ PlaceBetResult(ROUTER_USER_ID, e, amount, outcome) = "ok"
                   => Len(bets) < MaxBets
             /\ PlaceBetEffect(ROUTER_USER_ID, e, amount, outcome)
             /\ last' = RouteResp("api_place_bet", ROUTER_USER_ID,
                    "/bet/place", token,
                    PlaceBetResult(ROUTER_USER_ID, e, amount, outcome), NoBody)
        ELSE /\ last' = RouteResp("api_place_bet", ROUTER_USER_ID,
                                  "/bet/place", token, Gate(token, FALSE),
                                  NoBody)
             /\ UNCHANGED <<users, events, bets, locked_users,
                            total_service_deposit, now, resolves, deposits,
                            withdrawn_at, tasks>>

route_bet_place == route_bet_place_in(EventIds, BetAmounts, Outcomes)

\* authenticate_user(session, username, password): the ids of the users it
\* returns (scalar_one_or_none raises when several rows carry the username)
Authenticated(username, password) ==
    {u \in 1..Len(users) :
        /\ users[u].username = username
        /\ verify_password(password, users[u].hashed_password)}

SameName(username) == {u \in 1..Len(users) : users[u].username = username}

\* The users table declares username unique (the table's definition is not
\* among the sources): the INSERT of a second row with a stored username
\* fails at commit.
UsernameTaken(username) == SameName(username) # {}

RegisterResult(username, password) ==
    IF Cardinality(SameName(username)) > 1 THEN "500"
    ELSE IF Authenticated(username, password) # {} THEN "400"
    ELSE IF UsernameTaken(username) THEN "500"
    ELSE "ok"

\* The answer of POST /register, with the request's username and password.
RegisterResp(username, password, result, user_id) ==
    [op |-> "register", user |-> 0, result |-> result, ret |-> user_id,
     username |-> username, password |-> password]

\* POST /register of the public router
register ==
    \E username \in Usernames, password \in Passwords :
        /\ RegisterResult(username, password) = "ok" => Len(users) < MaxUsers
        /\ users' = IF RegisterResult(username, password) = "ok"
                    THEN Append(users, create_user(username, password))
                    ELSE users
        /\ last' = RegisterResp(username, password,
                        RegisterResult(username, password),
                        IF RegisterResult(username, password) = "ok"
                        THEN Len(users) + 1 ELSE 0)
        /\ UNCHANGED <<events, bets, locked_users, total_service_deposit, now,
                       resolves, deposits, withdrawn_at, tasks>>

\* ------------------------------------------------- requests in flight
\* A handler is suspended only where it awaits the storage: session.execute,
\* session.commit.  A task is one call of a handler, advanced from one such
\* await to the next; each task has its own session, so the rows it loaded
\* are its own copies until it commits, and a commit writes the columns the
\* task assigned with the values of its copies.  locked_users and
\* total_service_deposit are the engine's own and change at once.
BetTask(u, e, amount, outcome, pc, result) ==
    [kind |-> "bet", pc |-> pc, user_id |-> u, event_id |-> e,
     amount |-> amount, outcome |-> outcome, result |-> result,
     balance |-> R(0), total_deposited |-> R(0), odds |-> R(0)]

WithdrawTask(u, amount, via, pc, result) ==
    [kind |-> "withdraw", pc |-> pc, user_id |-> u, amount |-> amount,
     via |-> via, result |-> result]

ResolveTask(e, actual_result, pc, result) ==
    [kind |-> "resolve", pc |-> pc, user_id |-> 0, event_id |-> e,
     actual_result |-> actual_result, result |-> result,
     newbets |-> <<>>, newbal |-> <<>>]

Finish(k, result) == [k EXCEPT !.pc = "done", !.result = result]

At(t, kind, pc) ==
    t \in 1..Len(tasks) /\ tasks[t].kind = kind /\ tasks[t].pc = pc

\* place_bet from its call to the await of the user query
pb_begin_in(U, E, A, O) ==
    \E u \in U, e \in E, amount \in A, outcome \in O :
        /\ Len(tasks) < MaxTasks
        /\ IF LockActive(u)
           THEN /\ locked_users' = locked_users
                /\ tasks' = Append(tasks,
                      BetTask(u, e, amount, outcome, "done", "locked"))
           ELSE /\ locked_users' = Unlock(u)
                /\ tasks' = Append(tasks,
                      BetTask(u, e, amount, outcome, "get_user", "pending"))
        /\ last' = Resp("pb_begin", u, tasks'[Len(tasks')].result, Len(tasks'))
        /\ UNCHANGED <<users, events, bets, total_service_deposit, now,
                       resolves, deposits, withdrawn_at>>

\* ... from the user row's arrival to the await of the event query
pb_get_user ==
    \E t \in 1..Len(tasks) :
        /\ At(t, "bet", "get_user")
        /\ LET k == tasks[t]
               u == tasks[t].user_id
           IN tasks' = [tasks EXCEPT ![t] =
                 IF ~UserExists(u) THEN Finish(k, "user_not_found")
                 ELSE IF RLess(users[u].balance, R(k.amount))
                      THEN Finish(k, "insufficient_balance")
                 ELSE [k EXCEPT !.pc = "get_event",
                                !.balance = users[u].balance,
                                !.total_deposited = users[u].total_deposited]]
        /\ last' = Resp("pb_get_user", tasks[t].user_id, tasks'[t].result, t)
        /\ UNCHANGED <<users, events, bets, locked_users,
                       total_service_deposit, now, resolves, deposits,
                       withdrawn_at>>

\* ... from the event row's arrival to the await of the bets query
pb_get_event ==
    \E t \in 1..Len(tasks) :
        /\ At(t, "bet", "get_event")
        /\ LET k == tasks[t]
               e == tasks[t].event_id
           IN tasks' = [tasks EXCEPT ![t] =
                 IF ~EventExists(e) \/ ~events[e].is_active
                       \/ events[e].is_finished
                 THEN Finish(k, "event_not_active")
                 ELSE [k EXCEPT !.pc = "get_odds"]]
        /\ last' = Resp("pb_get_event", tasks[t].user_id, tasks'[t].result, t)
        /\ UNCHANGED <<users, events, bets, locked_users,
                       total_service_deposit, now, resolves, deposits,
                       withdrawn_at>>

\* ... from the bets' arrival to the await of the commit: the odds, the new
\* Bet, the debit on the task's copy of the user, the house total
pb_get_odds ==
    \E t \in 1..Len(tasks) :
        /\ At(t, "bet", "get_odds")
        /\ LET k == tasks[t]
               odds == calculate_odds_based_on_bets(tasks[t].event_id)
           IN IF k.outcome \notin DOMAIN odds
              THEN /\ tasks' = [tasks EXCEPT ![t] =
                                   Finish(k, "invalid_outcome")]
                   /\ UNCHANGED total_service_deposit
              ELSE /\ tasks' = [tasks EXCEPT ![t] =
                        [k EXCEPT !.pc = "commit",
                                  !.odds = odds[k.outcome],
                                  !.balance = RSub(@, R(k.amount)),
                                  !.total_deposited = RAdd(@, R(k.amount))]]
                   /\ total_service_deposit' =
                         RAdd(total_service_deposit, R(k.amount))
        /\ last' = Resp("pb_get_odds", tasks[t].user_id, tasks'[t].result, t)
        /\ UNCHANGED <<users, events, bets, locked_users, now, resolves,
                       deposits, withdrawn_at>>

\* ... the commit: the Bet row is inserted and the user row updated
pb_commit ==
    \E t \in 1..Len(tasks) :
        /\ At(t, "bet", "commit")
        /\ LET k == tasks[t] IN
           /\ bets' = Append(bets, NewBet(k.user_id, k.event_id, k.amount,
                                          k.odds, k.outcome))
           /\ users' = [users EXCEPT
                 ![k.user_id].balance = k.balance,
                 ![k.user_id].total_deposited = k.total_deposited]
           /\ tasks' = [tasks EXCEPT ![t] = Finish(k, "ok")]
        /\ last' = Resp("pb_commit", tasks[t].user_id, "ok", t)
        /\ UNCHANGED <<events, locked_users, total_service_deposit, now,
                       resolves, deposits, withdrawn_at>>

\* A withdraw request is received: through the router, whose handler waits
\* for its session first, or through the user-profile module.
WithdrawVias == {"router", "profile"}

wd_arrive_in(U, A) ==
    \E u \in U, amount \in A, via \in WithdrawVias :
        /\ Len(tasks) < MaxTasks
        /\ tasks' = Append(tasks,
                           WithdrawTask(u, amount, via, "ready", "pending"))
        /\ last' = Resp("wd_arrive", u, "pending", Len(tasks'))
        /\ UNCHANGED <<users, events, bets, locked_users,
                       total_service_deposit, now, resolves, deposits,
                       withdrawn_at>>

\* the result of a received withdraw request whose handler body runs now
WdResult(k) ==
    IF k.via = "profile" THEN WithdrawFundsResult(k.user_id, k.amount)
    ELSE WithdrawResult(k.user_id)

\* the locks after that body
WdLocks(k) ==
    IF k.via = "profile"
    THEN IF k.amount <= 0 THEN locked_users
         ELSE IF LockStatus(k.user_id) THEN LockStatusLocks(k.user_id)
         ELSE SetLock(LockStatusLocks(k.user_id), k.user_id,
                      now + LOCK_SECONDS)
    ELSE WithdrawLocks(k.user_id)

\* the handler body with a suspension between the lock check and the
\* installation of the lock
wd_body_Suspended ==
    \E t \in 1..Len(tasks) :
        /\ \/ /\ At(t, "withdraw", "ready")
              /\ tasks' = [tasks EXCEPT ![t] =
                    IF WdResult(tasks[t]) = "ok"
                    THEN [tasks[t] EXCEPT !.pc = "install"]
                    ELSE Finish(tasks[t], WdResult(tasks[t]))]
              /\ UNCHANGED <<locked_users, withdrawn_at>>
           \/ /\ At(t, "withdraw", "install")
              /\ tasks' = [tasks EXCEPT ![t] = Finish(tasks[t], "ok")]
              /\ locked_users' = SetLock(Unlock(tasks[t].user_id),
                                   tasks[t].user_id, now + LOCK_SECONDS)
              /\ withdrawn_at' = Withdrawn(tasks[t].user_id, "ok")
        /\ last' = Resp("wd_body", tasks[t].user_id, tasks'[t].result, t)
        /\ UNCHANGED <<users, events, bets, total_service_deposit, now,
                       resolves, deposits>>

\* the handler body: get_user_lock_status and withdraw_money are coroutines
\* that never wait, so the body runs from the check to the lock in one piece
wd_body ==
    \E t \in 1..Len(tasks) :
        /\ At(t, "withdraw", "ready")
        /\ tasks' = [tasks EXCEPT ![t] = Finish(tasks[t], WdResult(tasks[t]))]
        /\ locked_users' = WdLocks(tasks[t])
        /\ withdrawn_at' = Withdrawn(tasks[t].user_id, WdResult(tasks[t]))
        /\ last' = Resp("wd_body", tasks[t].user_id, tasks'[t].result, t)
        /\ UNCHANGED <<users, events, bets, total_service_deposit, now,
                       resolves, deposits>>

\* resolve_event from its call to the await of the bets query: the event is
\* read and marked on the task's copy
rs_begin_in(E, Rs) ==
    \E e \in E, actual_result \in Rs :
        /\ Len(tasks) < MaxTasks
        /\ resolves < MaxResolves
        /\ resolves' = resolves + 1
        /\ tasks' = Append(tasks,
              IF EventExists(e)
              THEN ResolveTask(e, actual_result, "get_bets", "pending")
              ELSE ResolveTask(e, actual_result, "done", "event_not_found"))
        /\ last' = Resp("rs_begin", 0, tasks'[Len(tasks')].result, Len(tasks'))
        /\ UNCHANGED <<users, events, bets, locked_users,
                       total_service_deposit, now, deposits, withdrawn_at>>

\* ... from the bets' arrival (with their users) to the await of the
\* commit: every loaded bet is settled on the task's copies, the winners'
\* copies are credited, the house total is reduced
rs_get_bets ==
    \E t \in 1..Len(tasks) :
        /\ At(t, "resolve", "get_bets")
        /\ LET k == tasks[t]
               loaded == EventBets(tasks[t].event_id)
               won == Winners(tasks[t].event_id, tasks[t].actual_result)
               paid == {bets[i].user_id : i \in won}
           IN /\ tasks' = [tasks EXCEPT ![t] =
                    [k EXCEPT
                       !.pc = "commit",
                       !.newbets = [i \in loaded |->
                                       ResolveBet(bets[i], k.actual_result)],
                       !.newbal = [u \in paid |->
                          RAdd(users[u].balance,
                               SumPayout({i \in won : bets[i].user_id = u}))]]]
              /\ total_service_deposit' =
                    RSub(total_service_deposit, SumPayout(won))
        /\ last' = Resp("rs_get_bets", 0, "pending", t)
        /\ UNCHANGED <<users, events, bets, locked_users, now, resolves,
                       deposits, withdrawn_at>>

\* ... the commit: the event row, the loaded bets' rows and the winners'
\* balances are written
rs_commit ==
    \E t \in 1..Len(tasks) :
        /\ At(t, "resolve", "commit")
        /\ LET k == tasks[t] IN
           /\ events' = [events EXCEPT ![k.event_id].is_active = FALSE,
                                       ![k.event_id].is_finished = TRUE,
                                       ![k.event_id].result = k.actual_result]
           /\ bets' = [i \in 1..Len(bets) |->
                          IF i \in DOMAIN k.newbets THEN k.newbets[i]
                          ELSE bets[i]]
           /\ users' = [u \in DOMAIN users |->
                          IF u \in DOMAIN k.newbal
                          THEN [users[u] EXCEPT !.balance = k.newbal[u]]
                          ELSE users[u]]
           /\ tasks' = [tasks EXCEPT ![t] = Finish(k, "ok")]
        /\ last' = Resp("rs_commit", 0, "ok", t)
        /\ UNCHANGED <<locked_users, total_service_deposit, now, resolves,
                       deposits, withdrawn_at>>

pb_begin == pb_begin_in(UserIds, EventIds, BetAmounts, Outcomes)
wd_arrive == wd_arrive_in(UserIds, WithdrawAmounts)
rs_begin == rs_begin_in(EventIds, Results)

Next ==
    \/ Tick
    \/ register
    \/ create_random_events
    \/ deposit_funds
    \/ place_bet
    \/ api_place_bet
    \/ resolve_event
    \/ withdraw_money
    \/ api_withdraw_money
    \/ withdraw_funds
    \/ get_user_lock_status
    \/ pb_begin
    \/ pb_get_user
    \/ pb_get_event
    \/ pb_get_odds
    \/ pb_commit
    \/ wd_arrive
    \/ wd_body
    \/ rs_begin
    \/ rs_get_bets
    \/ rs_commit

Spec == Init /\ [][Next]_vars

\* ---------------------------------------------- a populated system as start
\* The state after register has been called for the first n usernames and
\* create_random_events has drawn football and tennis; nothing else has run.
SeedNames == <<"alice", "bob", "carol", "dave">>
SeedSports == <<"football", "tennis", "football", "tennis">>

InitReady ==
    /\ \E n \in (MaxUsers - 1)..MaxUsers :
          users = [i \in 1..n |-> create_user(SeedNames[i], "pw")]
    /\ events = [i \in 1..MaxEvents |-> NewEvent(SeedSports[i])]
    /\ bets = <<>>
    /\ locked_users = <<>>
    /\ total_service_deposit = R(0)
    /\ now = 0
    /\ resolves = 0
    /\ deposits = 0
    /\ withdrawn_at = [u \in UserIds |-> NoTime]
    /\ last = Resp("init", 0, "ok", 0)
    /\ tasks = <<>>

\* Bets, payouts and balances on existing users and events; no lock is
\* taken and the clock stands still.
BetPlace == place_bet_in(UserIds, 1..MaxEvents, BetAmounts, Outcomes)
BetResolve == resolve_event_in(1..MaxEvents, Results)

NextBet ==
    \/ deposit_funds
    \/ BetPlace
    \/ BetResolve

SpecBet == InitReady /\ [][NextBet]_vars

\* Every way place_bet and resolve_event can refuse a call: locked or missing
\* users, missing or finished events, unknown outcomes, short balances.
RejectPlace == place_bet_in(UserIds, EventIds, {60}, {"team_a_won", "player1"})
RejectApiPlace == api_place_bet_in(EventIds, {60}, {"team_a_won", "player1"})
RejectResolve == resolve_event_in(EventIds, {"team_a_won"})

NextReject ==
    \/ RejectPlace
    \/ RejectApiPlace
    \/ RejectResolve
    \/ withdraw_money

SpecReject == InitReady /\ [][NextReject]_vars

\* The withdrawal lock over time.
LockPlace == place_bet_in(UserIds, {1}, {60}, {"team_a_won"})
LockApiPlace == api_place_bet_in({1}, {60}, {"team_a_won"})

NextLock ==
    \/ Tick
    \/ LockPlace
    \/ LockApiPlace
    \/ withdraw_money
    \/ api_withdraw_money
    \/ withdraw_funds
    \/ get_user_lock_status

SpecLock == InitReady /\ [][NextLock]_vars

\* Stakes of different sizes on the three standard outcomes of one event.
OddsDeposit == deposit_funds_in({2}, {200})
OddsPlace ==
    place_bet_in(UserIds, {1}, {30, 100, 300},
                 {"team_a_won", "team_b_won", "draw"})

NextOdds ==
    \/ OddsDeposit
    \/ OddsPlace

SpecOdds == InitReady /\ [][NextOdds]_vars

\* Deposits of every sign, for users that exist and users that do not, next
\* to bets and withdrawal locks.
DepositAny == deposit_funds_in(UserIds, {-50, 0, 50, 70})
DepositPlace == place_bet_in(UserIds, {1}, {60}, {"team_a_won"})

NextDeposit ==
    \/ DepositAny
    \/ DepositPlace
    \/ withdraw_money

SpecDeposit == InitReady /\ [][NextDeposit]_vars

\* The public router's protected routes called with every kind of token while
\* the clock runs past the earlier expiry.
AuthPlace == route_bet_place_in({1}, {60}, {"team_a_won"})

NextAuth ==
    \/ Tick
    \/ route_user_profile
    \/ route_user_balance
    \/ route_user_withdraw
    \/ AuthPlace
    \/ route_admin_analytics
    \/ route_admin_users
    \/ route_admin_events

SpecAuth == InitReady /\ [][NextAuth]_vars

\* Bets on one event next to everything that may run after them: further
\* bets, resolutions, deposits and withdrawals.
FrameDeposit == deposit_funds_in({1}, {50})
FramePlace == place_bet_in(UserIds, {1}, {60}, {"team_a_won", "draw"})
FrameResolve == resolve_event_in({1}, Results)

NextFrame ==
    \/ FrameDeposit
    \/ FramePlace
    \/ FrameResolve
    \/ withdraw_money

SpecFrame == InitReady /\ [][NextFrame]_vars

\* Registration from the empty system, with repeated usernames and passwords.
NextRegister ==
    \/ register
    \/ create_random_events
    \/ deposit_funds

SpecRegister == Init /\ [][NextRegister]_vars

\* Bets and withdrawals in flight together: every request is advanced one
\* suspension at a time, in any order; the clock stands still.
RaceBet == pb_begin_in(UserIds, {1}, {60}, {"team_a_won"})
RaceWithdraw == wd_arrive_in(UserIds, {20})

NextRaceLock ==
    \/ RaceBet
    \/ pb_get_user
    \/ pb_get_event
    \/ pb_get_odds
    \/ pb_commit
    \/ RaceWithdraw
    \/ wd_body

SpecRaceLock == InitReady /\ [][NextRaceLock]_vars

\* Bets on event 1 and its resolution in flight together.
RaceResolve == rs_begin_in({1}, {"team_a_won"})

NextRaceResolve ==
    \/ RaceBet
    \/ pb_get_user
    \/ pb_get_event
    \/ pb_get_odds
    \/ pb_commit
    \/ RaceResolve
    \/ rs_get_bets
    \/ rs_commit

SpecRaceResolve == InitReady /\ [][NextRaceResolve]_vars

\* ------------------------------------------------------------------- claims
PlaceOps == {"place_bet", "api_place_bet"}
WithdrawOps == {"withdraw_money", "api_withdraw_money", "withdraw_funds"}

Accepted(l) == l.op \in PlaceOps /\ l.result = "ok"
Refused(l) == l.op \in PlaceOps /\ l.result # "ok"

\* C1: a successful place_bet takes exactly the amount from the bettor's
\* balance, adds exactly the amount to the bettor's total_deposited and to the
\* house-deposit total, and adds exactly one bet, unresolved and with payout 0,
\* owned by the caller; no other user and no earlier bet changes.
C1_PlaceBetBooksTheStake ==
    [][Accepted(last') =>
        LET b == bets'[last'.ret]
            u == last'.user
        IN /\ last'.ret = Len(bets) + 1
           /\ Len(bets') = Len(bets) + 1
           /\ \A i \in 1..Len(bets) : bets'[i] = bets[i]
           /\ b.user_id = u
           /\ EventExists(b.event_id)
           /\ b.is_won = None /\ b.payout = R(0) /\ b.resolved_at = NoTime
           /\ users'[u].balance = RSub(users[u].balance, R(b.amount))
           /\ users'[u].total_deposited =
                 RAdd(users[u].total_deposited, R(b.amount))
           /\ total_service_deposit' =
                 RAdd(total_service_deposit, R(b.amount))
           /\ \A v \in 1..Len(users) : v # u => users'[v] = users[v]
    ]_vars

C1_Witness ==
    /\ Accepted(last)
    /\ Len(bets) = 2
    /\ bets[2].amount = 60
    /\ users[last.user].balance = R(40)

\* C2: a refused place_bet, whatever the reason, leaves every user row, the
\* bets and the house-deposit total as they were.
C2_RefusedBetChangesNothing ==
    [][Refused(last') =>
        /\ users' = users
        /\ bets' = bets
        /\ total_service_deposit' = total_service_deposit
    ]_vars

C2_Witness ==
    /\ last.op = "place_bet"
    /\ last.result = "event_not_active"
    /\ Len(bets) > 0
    /\ \E u \in DOMAIN locked_users : LockActive(u)

Resolved(l) == l.op = "resolve_event" /\ l.result = "ok"

\* the payouts recorded in the table bs on the bets S
RECURSIVE PayoutSum(_, _)
PayoutSum(bs, S) ==
    IF S = {} THEN R(0)
    ELSE LET i == CHOOSE j \in S : TRUE
         IN RAdd(bs[i].payout, PayoutSum(bs, S \ {i}))

\* C3: resolve_event(e, r) on an existing event marks the bets on e that
\* predicted r as won with payout amount x odds, every other bet on e as lost
\* with payout 0, stamps resolved_at on all of them, credits each bettor with
\* the payouts of their bets on e, and leaves e inactive and finished with
\* result r; bets on other events, and other events, are untouched.
C3_ResolveSettlesTheEvent ==
    [][Resolved(last') =>
        \E e \in 1..Len(events), r \in Results :
           /\ events'[e] = [events[e] EXCEPT !.is_active = FALSE,
                                             !.is_finished = TRUE,
                                             !.result = r]
           /\ \A f \in 1..Len(events) : f # e => events'[f] = events[f]
           /\ Len(events') = Len(events)
           /\ Len(bets') = Len(bets)
           /\ \A i \in 1..Len(bets) :
                 IF bets[i].event_id = e
                 THEN /\ bets'[i] =
                           [bets[i] EXCEPT
                              !.is_won = IF bets[i].predicted_outcome = r
                                         THEN "True" ELSE "False",
                              !.payout = IF bets[i].predicted_outcome = r
                                         THEN RMul(R(bets[i].amount), bets[i].odds)
                                         ELSE R(0),
                              !.resolved_at = now]
                 ELSE bets'[i] = bets[i]
           /\ Len(users') = Len(users)
           /\ \A u \in 1..Len(users) :
                 users'[u] =
                    [users[u] EXCEPT !.balance =
                        RAdd(@, PayoutSum(bets', {i \in 1..Len(bets) :
                                  bets[i].event_id = e /\ bets[i].user_id = u}))]
    ]_vars

C3_Witness ==
    /\ Resolved(last)
    /\ \E i, j \in 1..Len(bets) :
          /\ bets[i].event_id = bets[j].event_id
          /\ bets[i].is_won = "True" /\ RLess(R(0), bets[i].payout)
          /\ bets[j].is_won = "False"
          /\ RLess(R(START_BALANCE), users[bets[i].user_id].balance)

\* C4: once an event is finished its result, and its being finished and
\* inactive, never change again.
C4_ResultSetOnce ==
    [][\A e \in 1..Len(events) :
          events[e].is_finished => events'[e] = events[e]]_vars

\* C5: once a bet is resolved its is_won, payout and resolved_at never change
\* again, and a later resolve_event credits nothing to a user whose bets were
\* all resolved already.
C5_BetSettledOnce ==
    [][/\ \A i \in 1..Len(bets) :
             bets[i].is_won # None => bets'[i] = bets[i]
       /\ Resolved(last') =>
             \A u \in 1..Len(users) :
                (\A i \in 1..Len(bets) :
                    bets[i].user_id = u => bets[i].is_won # None)
                => users'[u].balance = users[u].balance
    ]_vars

\* user u's last successful withdrawal is less than 30 seconds old
InWindow(u) == withdrawn_at[u] # NoTime /\ now < withdrawn_at[u] + 30

\* C6: for 30 seconds after a withdrawal of user u succeeded, every
\* withdrawal for u and every place_bet by u is refused as locked; a user with
\* no such withdrawal is refused by neither.
C6_LockedForThirtySeconds ==
    \A u \in UserIds :
        IF InWindow(u)
        THEN /\ WithdrawResult(u) = "locked"
             /\ \A a \in WithdrawAmounts :
                   a > 0 => WithdrawFundsResult(u, a) = "423"
             /\ \A e \in EventIds, a \in BetAmounts, o \in Outcomes :
                   PlaceBetResult(u, e, a, o) = "locked"
        ELSE /\ WithdrawResult(u) = "ok"
             /\ \A a \in WithdrawAmounts :
                   a > 0 => WithdrawFundsResult(u, a) = "ok"
             /\ \A e \in EventIds, a \in BetAmounts, o \in Outcomes :
                   PlaceBetResult(u, e, a, o) # "locked"

C6_Witness ==
    /\ last.op \in PlaceOps
    /\ last.result = "locked"
    /\ InWindow(last.user)
    /\ now > withdrawn_at[last.user]
    /\ \E v \in UserIds :
          /\ ~InWindow(v)
          /\ \E i \in 1..Len(bets) :
                bets[i].user_id = v /\ withdrawn_at[last.user] = 0

\* the lock entry of u has run out: utcnow() is at or past the unlock time
Expired(u) == u \in DOMAIN locked_users /\ now >= locked_users[u]

\* C7: once u's lock has run out, the boundary instant included, place_bet by
\* u is not refused as locked and drops the entry, a withdrawal for u succeeds
\* and sets the unlock time to now + 30, and get_user_lock_status(u) answers
\* not locked.
C7_ExpiredLockIsGone ==
    [][Expired(last'.user) =>
        LET u == last'.user IN
        /\ last'.op \in PlaceOps =>
              /\ last'.result # "locked"
              /\ last'.result # "403" => u \notin DOMAIN locked_users'
        /\ last'.op \in WithdrawOps /\ last'.result \notin {"400", "403"} =>
              /\ last'.result = "ok"
              /\ u \in DOMAIN locked_users'
              /\ locked_users'[u] = now + 30
        /\ last'.op = "get_user_lock_status" =>
              /\ last'.result = "False"
              /\ u \notin DOMAIN locked_users'
    ]_vars

C7_Witness ==
    /\ last.op \in WithdrawOps
    /\ last.result = "ok"
    /\ now = 30
    /\ withdrawn_at[last.user] = 30
    /\ locked_users[last.user] = 60
    /\ \E i \in 1..Len(bets) : bets[i].user_id = last.user

\* C8: a withdrawal, accepted or refused, through the engine or either
\* endpoint, changes no user row, bet or event and not the house-deposit total;
\* in the lock map it touches the entry of its own user only.
C8_WithdrawOnlyLocks ==
    [][last'.op \in WithdrawOps =>
        /\ users' = users
        /\ bets' = bets
        /\ events' = events
        /\ total_service_deposit' = total_service_deposit
        /\ \A v \in UserIds \ {last'.user} :
              /\ v \in DOMAIN locked_users' <=> v \in DOMAIN locked_users
              /\ v \in DOMAIN locked_users =>
                    locked_users'[v] = locked_users[v]
    ]_vars

C8_Witness ==
    /\ last.op \in WithdrawOps
    /\ last.result = "ok"
    /\ UserExists(last.user)
    /\ users[last.user].balance = R(40)
    /\ Len(bets) > 0
    /\ \E v \in DOMAIN locked_users : v # last.user

\* C9: no user's balance is ever below 0.
C9_BalanceNeverNegative ==
    \A u \in 1..Len(users) : ~RLess(users[u].balance, R(0))

\* C10: every bet in the table predicts one of the outcome codes of its
\* event's sport.
C10_OutcomeFitsTheSport ==
    \A i \in 1..Len(bets) :
        bets[i].predicted_outcome \in
            get_sport_outcomes(events[bets[i].event_id].sport_type)

\* the ids of the bets on event e, and the sum of the amounts of the bets S
BetsOn(e) == {i \in 1..Len(bets) : bets[i].event_id = e}
Predicted(e) == {bets[i].predicted_outcome : i \in BetsOn(e)}

RECURSIVE Stake(_)
Stake(S) ==
    IF S = {} THEN 0
    ELSE LET i == CHOOSE j \in S : TRUE IN bets[i].amount + Stake(S \ {i})

StakeOn(e, o) == Stake({i \in BetsOn(e) : bets[i].predicted_outcome = o})

\* C11: for an event without bets calculate_odds_based_on_bets returns exactly
\* {team_a_won: 2.0, team_b_won: 2.0, draw: 3.0}; for an event with bets the
\* map still has the three standard keys, and those no bet predicts carry
\* 2.0, 2.0 and 3.0.
C11_StandardOddsFilledIn ==
    \A e \in 1..Len(events) :
        LET odds == calculate_odds_based_on_bets(e) IN
        /\ BetsOn(e) = {} =>
              /\ DOMAIN odds = {"team_a_won", "team_b_won", "draw"}
              /\ odds["team_a_won"] = <<2, 1>>
              /\ odds["team_b_won"] = <<2, 1>>
              /\ odds["draw"] = <<3, 1>>
        /\ {"team_a_won", "team_b_won", "draw"} \subseteq DOMAIN odds
        /\ "team_a_won" \notin Predicted(e) => odds["team_a_won"] = <<2, 1>>
        /\ "team_b_won" \notin Predicted(e) => odds["team_b_won"] = <<2, 1>>
        /\ "draw" \notin Predicted(e) => odds["draw"] = <<3, 1>>

C11_Witness ==
    /\ Accepted(last)
    /\ Predicted(1) = {"team_a_won", "team_b_won"}
    /\ calculate_odds_based_on_bets(1)["draw"] = <<3, 1>>
    /\ calculate_odds_based_on_bets(1)["team_a_won"] # <<2, 1>>
    /\ BetsOn(2) = {}

\* C12: for an event with bets, every outcome with a positive total stake has
\* odds max(total stake on the event / stake on the outcome x 0.95, 1.1); with
\* 100 staked on A and 300 on B that is 3.8 for A and 400/300 x 0.95 = 19/15
\* for B.
C12_OddsFromStakeShare ==
    \A e \in 1..Len(events) :
        LET odds == calculate_odds_based_on_bets(e)
            total == Stake(BetsOn(e))
        IN BetsOn(e) # {} =>
            /\ \A o \in Predicted(e) :
                  StakeOn(e, o) > 0 =>
                     odds[o] = RMax(RMul(Norm(total, StakeOn(e, o)),
                                         <<19, 20>>), <<11, 10>>)
            /\ \A A, B \in Predicted(e) :
                  StakeOn(e, A) = 100 /\ StakeOn(e, B) = 300 /\ total = 400
                  => odds[A] = <<19, 5>> /\ odds[B] = <<19, 15>>

C12_Witness ==
    /\ Accepted(last)
    /\ StakeOn(1, "team_a_won") = 100
    /\ StakeOn(1, "team_b_won") = 300
    /\ calculate_odds_based_on_bets(1)["team_a_won"] = <<19, 5>>

\* C13: every value of the odds map of every event, and the odds stored on
\* every bet, is at least 1.1, whatever the stakes.
C13_OddsAtLeastFloor ==
    /\ \A e \in 1..Len(events) :
          \A o \in DOMAIN calculate_odds_based_on_bets(e) :
              ~RLess(calculate_odds_based_on_bets(e)[o], <<11, 10>>)
    /\ \A i \in 1..Len(bets) : ~RLess(bets[i].odds, <<11, 10>>)

C13_Witness ==
    /\ Accepted(last)
    /\ Len(bets) = 2
    /\ bets[2].odds = <<11, 10>>
    /\ bets[1].predicted_outcome = bets[2].predicted_outcome

\* C14: deposit_funds(u, amount) with amount > 0 for an existing user u adds
\* exactly amount to u's balance and to u's total_deposited, answers with the
\* updated balance, and changes no other user, no bet, no lock and not the
\* house-deposit total.
C14_DepositCreditsTheAmount ==
    [][last'.op = "deposit_funds" /\ last'.amount > 0 /\ UserExists(last'.user)
       => LET u == last'.user
              a == last'.amount
          IN /\ last'.result = "ok"
             /\ Len(users') = Len(users)
             /\ users'[u].balance = RAdd(users[u].balance, R(a))
             /\ users'[u].total_deposited = RAdd(users[u].total_deposited, R(a))
             /\ users'[u].username = users[u].username
             /\ users'[u].role = users[u].role
             /\ last'.new_balance = RAdd(users[u].balance, R(a))
             /\ \A v \in 1..Len(users) : v # u => users'[v] = users[v]
             /\ bets' = bets
             /\ locked_users' = locked_users
             /\ total_service_deposit' = total_service_deposit
    ]_vars

C14_Witness ==
    /\ last.op = "deposit_funds"
    /\ last.result = "ok"
    /\ last.amount = 70
    /\ last.new_balance = R(110)
    /\ users[last.user].total_deposited = R(130)
    /\ Len(users) = 2
    /\ \E v \in DOMAIN locked_users : LockActive(v)

\* C15: deposit_funds with amount <= 0 is answered 400 and deposit_funds for a
\* user that does not exist is answered 404; neither changes a balance or a
\* total_deposited.
C15_BadDepositRefused ==
    [][last'.op = "deposit_funds" =>
        /\ last'.amount <= 0 =>
              last'.result = "400" /\ users' = users
        /\ last'.amount > 0 /\ ~UserExists(last'.user) =>
              last'.result = "404" /\ users' = users
    ]_vars

C15_Witness ==
    /\ last.op = "deposit_funds"
    /\ last.result = "404"
    /\ last.amount = 50
    /\ ~UserExists(last.user)
    /\ deposits = 1
    /\ users[1].balance = R(170)

RouteOps ==
    {"get_user_profile", "get_user_balance", "api_withdraw_money",
     "api_place_bet", "get_admin_analytics", "get_all_users",
     "get_admin_events"}
UserRoutes == {"/user/profile", "/user/balance", "/user/withdraw", "/bet/place"}
AdminRoutes == {"/admin/analytics", "/admin/users", "/admin/events"}

\* the token is expired, badly signed, malformed, or lacks sub or role
BadToken(t) ==
    \/ ~t.wellformed
    \/ ~t.signed
    \/ t.exp < now
    \/ t.sub = None
    \/ t.role = None

\* the step left the lock map, the tables and the house total alone
NothingDone ==
    /\ locked_users' = locked_users
    /\ users' = users
    /\ bets' = bets
    /\ events' = events
    /\ total_service_deposit' = total_service_deposit

\* C16: on every protected route of the public router a request whose token is
\* expired, badly signed, malformed or without sub or role is answered 401
\* before the handler runs: lock map, balances and bets stay as they were and
\* no analytics are returned.
C16_BadTokenIsUnauthorized ==
    [][last'.op \in RouteOps /\ BadToken(last'.token) =>
        /\ last'.result = "401"
        /\ last'.body = NoBody
        /\ NothingDone
    ]_vars

C16_Witness ==
    /\ last.op = "api_withdraw_money"
    /\ last.result = "401"
    /\ last.token.wellformed /\ last.token.signed
    /\ last.token.sub = "alice" /\ last.token.role = "admin"
    /\ last.token.exp < now
    /\ \E i \in 1..Len(bets) : bets[i].user_id = ROUTER_USER_ID
    /\ ROUTER_USER_ID \notin DOMAIN locked_users

\* C17: with a token that passes the 401 test, the admin endpoints
\* (/admin/analytics, /admin/users, /admin/events) return their data only for
\* the role "admin" and answer 403 for every other role, and the user
\* endpoints (/user/profile, /user/balance, /user/withdraw, /bet/place) answer
\* 403 for a role outside {user, admin} without doing anything.
C17_RoleGatesTheRoutes ==
    [][last'.op \in RouteOps /\ ~BadToken(last'.token) =>
        /\ last'.route \in AdminRoutes =>
              IF last'.token.role = "admin"
              THEN /\ last'.result = "ok"
                   /\ last'.body.kind # "none"
                   /\ last'.route = "/admin/analytics" =>
                         last'.body.data.locked_users_count =
                            Cardinality(DOMAIN locked_users)
              ELSE /\ last'.result = "403"
                   /\ last'.body = NoBody
                   /\ NothingDone
        /\ last'.route \in UserRoutes
              /\ last'.token.role \notin {"user", "admin"} =>
                 /\ last'.result = "403"
                 /\ last'.body = NoBody
                 /\ NothingDone
    ]_vars

C17_Witness ==
    /\ last.op = "get_admin_analytics"
    /\ last.route = "/admin/analytics"
    /\ last.result = "403"
    /\ ~BadToken(last.token)
    /\ last.token.role = "user"
    /\ DOMAIN locked_users # {}
    /\ Len(bets) > 0

\* C18: the house-deposit total equals the sum of the amounts of all bets
\* minus the sum of the payouts recorded on all bets.
C18_HouseTotalIsStakesMinusPayouts ==
    total_service_deposit =
        RSub(R(Stake(1..Len(bets))), PayoutSum(bets, 1..Len(bets)))

\* C19: the locked_users_count of get_admin_analytics is the number of users
\* whose unlock time is later than the current time.
C19_CountsTheLockedUsers ==
    get_admin_analytics.locked_users_count =
        Cardinality({u \in DOMAIN locked_users : now < locked_users[u]})

\* C20: a withdrawal request made while the user's cool-down is in effect is
\* answered 423 on the public router's and on the user-profile module's
\* withdraw endpoint, and a request with amount <= 0 on the user-profile
\* endpoint is answered 400 and leaves the lock map as it was.
C20_LockedIs423 ==
    [][/\ last'.op = "api_withdraw_money" /\ last'.result # "403"
             /\ LockActive(ROUTER_USER_ID)
          => ApiWithdrawStatus(last'.result) = "423"
       /\ last'.op = "withdraw_funds" /\ last'.amount > 0
             /\ LockActive(last'.user)
          => WithdrawFundsStatus(last'.result) = "423"
       /\ last'.op = "withdraw_funds" /\ last'.amount <= 0
          => /\ WithdrawFundsStatus(last'.result) = "400"
             /\ locked_users' = locked_users
    ]_vars

\* the five rejection conditions of a bet (u, e, a, o), each on its own
IsLocked(u) == u \in DOMAIN locked_users /\ now < locked_users[u]
NoUser(u) == u \notin 1..Len(users)
Short(u, a) == a > users[u].balance[1] \div users[u].balance[2]
NotBettable(e) ==
    e \notin 1..Len(events) \/ ~events[e].is_active \/ events[e].is_finished
BadOutcome(e, o) == o \notin DOMAIN calculate_odds_based_on_bets(e)

\* C22: place_bet reports the first rejection that applies in the order lock,
\* user existence, balance, event bettable, outcome valid, whatever else
\* holds: a locked user is told "locked" also on a finished event, an
\* over-balance bet is told "insufficient balance" also on a finished event.
C22_RejectionsInFixedOrder ==
    \A u \in UserIds, e \in EventIds, a \in {60, 500},
       o \in {"team_a_won", "player1"} :
        LET res == PlaceBetResult(u, e, a, o) IN
        /\ IsLocked(u) => res = "locked"
        /\ ~IsLocked(u) /\ NoUser(u) => res = "user_not_found"
        /\ ~IsLocked(u) /\ ~NoUser(u) /\ Short(u, a) =>
              res = "insufficient_balance"
        /\ ~IsLocked(u) /\ ~NoUser(u) /\ ~Short(u, a) /\ NotBettable(e) =>
              res = "event_not_active"
        /\ ~IsLocked(u) /\ ~NoUser(u) /\ ~Short(u, a) /\ ~NotBettable(e)
              /\ BadOutcome(e, o) => res = "invalid_outcome"
        /\ res = "ok" =>
              ~IsLocked(u) /\ ~NoUser(u) /\ ~Short(u, a) /\ ~NotBettable(e)
              /\ ~BadOutcome(e, o)

C22_Witness ==
    /\ last.op = "place_bet"
    /\ last.result = "locked"
    /\ IsLocked(last.user)
    /\ \A e \in EventIds : NotBettable(e)
    /\ PlaceBetResult(last.user, 1, 500, "player1") = "locked"
    /\ \E v \in UserIds :
          /\ ~IsLocked(v) /\ ~NoUser(v) /\ Short(v, 500)
          /\ PlaceBetResult(v, 1, 500, "player1") = "insufficient_balance"

\* what a bet is created with
Terms(b) == <<b.user_id, b.event_id, b.amount, b.odds, b.predicted_outcome>>

\* C23: a bet's user_id, event_id, amount, odds and predicted_outcome never
\* change after it was created, whatever place_bet, resolve_event, deposit or
\* withdrawal follows, and its odds are the dynamic odds of its outcome
\* computed from the bets on its event that existed just before it: 2.0, 2.0
\* or 3.0 for the first bet on an event.
C23_BetTermsAreFixed ==
    [][/\ Len(bets') >= Len(bets)
       /\ \A i \in 1..Len(bets) : Terms(bets'[i]) = Terms(bets[i])
       /\ Accepted(last') =>
             LET b == bets'[Len(bets')] IN
             /\ b.odds =
                   calculate_odds_based_on_bets(b.event_id)[b.predicted_outcome]
             /\ BetsOn(b.event_id) = {} =>
                   b.odds = IF b.predicted_outcome = "draw"
                            THEN <<3, 1>> ELSE <<2, 1>>
    ]_vars

C23_Witness ==
    /\ Resolved(last)
    /\ Len(bets) = 2
    /\ bets[1].is_won = "True"
    /\ bets[1].odds = <<2, 1>>
    /\ bets[2].odds = <<3, 1>>
    /\ calculate_odds_based_on_bets(1)[bets[1].predicted_outcome] = <<19, 10>>
    /\ deposits = 1
    /\ DOMAIN locked_users # {}

\* C24: through the public router /user/withdraw and /bet/place act on user
\* id 1 whoever's token is presented: a withdrawal accepted for any valid
\* token locks user 1, while user 1 is locked every /bet/place and
\* /user/withdraw request of every token holder is refused as locked, and
\* every accepted bet is a bet of user 1 and debits user 1.
C24_RouterActsOnUserOne ==
    [][last'.op \in {"api_withdraw_money", "api_place_bet"}
          /\ last'.result \notin {"401", "403"} =>
        /\ last'.user = 1
        /\ IsLocked(1) => last'.result = "locked" /\ NothingDone
        /\ last'.op = "api_withdraw_money" /\ last'.result = "ok" =>
              /\ 1 \in DOMAIN locked_users'
              /\ locked_users'[1] = now + 30
              /\ \A v \in DOMAIN locked_users' \ {1} :
                    v \in DOMAIN locked_users
                    /\ locked_users'[v] = locked_users[v]
        /\ last'.op = "api_place_bet" /\ last'.result = "ok" =>
              LET b == bets'[Len(bets')] IN
              /\ Len(bets') = Len(bets) + 1
              /\ b.user_id = 1
              /\ users'[1].balance = RSub(users[1].balance, R(b.amount))
              /\ \A v \in 2..Len(users) : users'[v] = users[v]
    ]_vars

C24_Witness ==
    /\ last.op = "api_place_bet"
    /\ last.result = "locked"
    /\ last.token.sub = "bob"
    /\ ~BadToken(last.token)
    /\ IsLocked(1)
    /\ Len(users) = 2
    /\ users[2].username = "bob"
    /\ \E i \in 1..Len(bets) : bets[i].user_id = 1
    /\ \A i \in 1..Len(bets) : bets[i].user_id # 2

\* C29: an accepted place_bet never raises the bettor's balance and never
\* lowers the bettor's total_deposited or the house-deposit total, whatever
\* amount it accepts.
C29_BetNeverPaysTheBettor ==
    [][Accepted(last') =>
        LET u == last'.user IN
        /\ ~RLess(users[u].balance, users'[u].balance)
        /\ ~RLess(users'[u].total_deposited, users[u].total_deposited)
        /\ ~RLess(total_service_deposit', total_service_deposit)
    ]_vars

\* C30: the house-deposit total is never negative when every bet amount is
\* positive: the payouts taken out at resolution never exceed the stakes put
\* in before.
C30_HouseTotalNeverNegative ==
    (\A i \in 1..Len(bets) : bets[i].amount > 0)
        => ~RLess(total_service_deposit, R(0))

\* a stored user has the username and a hash the password verifies against
Registered(username, password) ==
    \E u \in 1..Len(users) :
        /\ users[u].username = username
        /\ verify_password(password, users[u].hashed_password)

\* C21: register is answered 400 exactly when a stored user with the username
\* has a hash matching the password; in every other case, an existing
\* username with another password included, it adds exactly one user with
\* role "user", balance 100.0 and the password stored as its hash, and
\* returns that user's identifier.
C21_RegisterAddsOneUser ==
    [][last'.op = "register" =>
        IF Registered(last'.username, last'.password)
        THEN last'.result = "400" /\ users' = users
        ELSE /\ last'.result = "ok"
             /\ Len(users') = Len(users) + 1
             /\ \A u \in 1..Len(users) : users'[u] = users[u]
             /\ last'.ret = Len(users')
             /\ users'[last'.ret].username = last'.username
             /\ users'[last'.ret].role = "user"
             /\ users'[last'.ret].balance = <<100, 1>>
             /\ verify_password(last'.password,
                                users'[last'.ret].hashed_password)
    ]_vars

\* ------------------------------------------------ requests in flight
WdTasks(u) ==
    {t \in 1..Len(tasks) :
        tasks[t].kind = "withdraw" /\ tasks[t].user_id = u}

WdOk(u) == {t \in WdTasks(u) : tasks[t].result = "ok"}

WdRefused(u) == {t \in WdTasks(u) : tasks[t].result \in {"locked", "423"}}

\* C25: of the withdraw requests in flight together for one user who has no
\* active lock, at most one succeeds, and once all of them have been
\* answered exactly one has succeeded and every other one was refused as
\* locked.
C25_OneWithdrawWins ==
    \A u \in UserIds :
        /\ Cardinality(WdOk(u)) <= 1
        /\ (WdTasks(u) # {} /\ \A t \in WdTasks(u) : tasks[t].pc = "done")
              => /\ Cardinality(WdOk(u)) = 1
                 /\ WdTasks(u) = WdOk(u) \cup WdRefused(u)

\* Two withdraw requests of one user were in flight together and both have
\* been answered: one succeeded, the other was refused.
C25_Witness ==
    \E u \in UserIds :
        /\ WdOk(u) # {} /\ WdRefused(u) # {}
        /\ \A t \in WdTasks(u) : tasks[t].pc = "done"
        /\ \E t \in WdRefused(u) : \E s \in WdOk(u) : t < s

\* C26: whenever a bet is committed, its user's withdrawal lock is not
\* active at that moment.
C26_NoBetCommittedUnderLock ==
    [][Len(bets') > Len(bets)
          => ~LockActive(bets'[Len(bets')].user_id)]_vars

BetsOf(u) == {i \in 1..Len(bets) : bets[i].user_id = u}

\* C27: the stakes of a user's accepted bets never add up to more than the
\* funds the user had (here the starting balance: nothing is deposited or
\* paid out), and the stored balance is those funds less the stakes.
C27_NoDebitLost ==
    \A u \in DOMAIN users :
        /\ SumAmount(BetsOf(u)) <= START_BALANCE
        /\ users[u].balance = R(START_BALANCE - SumAmount(BetsOf(u)))

\* C28: every bet on a finished event is resolved: its is_won and its
\* resolved_at are set.
C28_FinishedEventsHaveNoOpenBets ==
    \A i \in 1..Len(bets) :
        events[bets[i].event_id].is_finished
            => bets[i].is_won # None /\ bets[i].resolved_at # NoTime
============================================================================
